---- MODULE Spec2Model ----
(***************************************************************************)
(* YOLO-World detectors (yolo_world/models/detectors/yolo_world.py).       *)
(*                                                                         *)
(* YOLOWorldDetector and YOLOWorldPromptDetector are modelled as one       *)
(* detector object whose class is fixed at construction.  The backbone,    *)
(* the neck and the head are external collaborators: every call the        *)
(* detector makes to them is appended to `trace`, together with the value  *)
(* bbox_head.num_classes holds at the moment of the call.                  *)
(*                                                                         *)
(*   Spec       the handlers, one call after the other                     *)
(*   SpecConc   loss / predict of several callers, statement by statement  *)
(*   SpecQuery  query_cls_embed on a detector                              *)
(***************************************************************************)
EXTENDS Integers, Sequences, FiniteSets, TLC

VARIABLES
    detector,            \* class of the object
    mm_neck,             \* self.mm_neck
    with_neck,           \* self.with_neck (a neck is configured)
    num_train_classes,   \* self.num_train_classes / self.num_training_classes
    num_test_classes,    \* self.num_test_classes
    num_prompts,         \* rows of self.embeddings (prompt detector)
    num_classes,         \* self.bbox_head.num_classes
    texts,               \* self.texts      [set, val]
    text_feats,          \* self.text_feats [set, val]
    call,                \* the last handler called, with its arguments
    trace,               \* the collaborator calls that handler made, in order
    outcome,             \* "ok" or the exception the handler raised
    extracted,           \* what extract_feat returned to that handler
    reparam,             \* history: what the last reparameterize computed
    serialized,          \* SpecConc: callers hold an external lock per call
    frames,              \* SpecConc: each caller's position and locals
    writer,              \* SpecConc: the caller that last assigned num_classes
    query                \* SpecQuery: the last query_cls_embed call

detVars   == <<detector, mm_neck, with_neck, num_train_classes,
               num_test_classes, num_prompts>>
cacheVars == <<texts, text_feats, reparam>>
logVars   == <<call, trace, outcome, extracted>>
concVars  == <<serialized, frames, writer>>
vars      == <<detVars, num_classes, cacheVars, logVars, concVars, query>>

-----------------------------------------------------------------------------
(* Bounds *)

MaxClasses == 2
MaxBatch == 2

-----------------------------------------------------------------------------
(* Values *)

Names == <<"cat", "dog", "bird", "fish", "boat">>

\* A class-name list of n names.
TextList(n) == [i \in 1..n |-> Names[i]]

TextLists == {TextList(n) : n \in 1..MaxClasses}

\* Python values handed in as batch_data_samples.
NoneSample  == [ty |-> "None", has |-> FALSE, texts |-> <<>>, items |-> <<>>]
DictSample(T) == [ty |-> "dict", has |-> TRUE, texts |-> <<T>>, items |-> <<>>]
DictNoTexts == [ty |-> "dict", has |-> FALSE, texts |-> <<>>, items |-> <<>>]
TupleSample == [ty |-> "tuple", has |-> FALSE, texts |-> <<>>, items |-> <<>>]
ListSample(items) == [ty |-> "list", has |-> FALSE, texts |-> <<>>, items |-> items]

\* A data sample: an object that has a `texts` attribute, or has none.
Item(h, T) == [has |-> h, texts |-> IF h THEN T ELSE <<>>]

ListSamples ==
    {ListSample(<<>>)} \cup
    UNION {{ListSample([i \in 1..n |-> Item(h[i], T)]) : h \in [1..n -> BOOLEAN]}
           : n \in 1..MaxBatch, T \in TextLists}

Samples ==
    {NoneSample, DictNoTexts, TupleSample} \cup {DictSample(T) : T \in TextLists}
    \cup ListSamples

\* A text feature tensor [B, C, D]: who computed it, from what, and its shape.
Feats(by, tx, b, c) == [by |-> by, texts |-> tx, shape |-> <<b, c>>]
NoFeats == Feats("none", <<>>, 0, 0)

\* An attribute of the detector object: absent, or holding a value.
NoAttr(dflt) == [set |-> FALSE, val |-> dflt]
Attr(v)      == [set |-> TRUE, val |-> v]

CallRec(fn, feats, nc) == [fn |-> fn, txt_feats |-> feats, num_classes |-> nc]

-----------------------------------------------------------------------------
(* backbone *)

\* backbone.forward_text(texts): one [C, D] block per entry of texts.
forward_text(tx) == Feats("forward_text", tx, Len(tx), Len(tx[1]))

\* backbone(batch_inputs, texts): image and text features computed jointly.
backbone_joint(tx) == Feats("backbone", tx, Len(tx), Len(tx[1]))

-----------------------------------------------------------------------------
(* YOLOWorldDetector.extract_feat *)

Resolved(src) == [exc |-> "none", src |-> src]
Raised(exc)   == [exc |-> exc, src |-> "none"]

\* The if / elif chain that picks where the texts come from.  `hasCache` is
\* hasattr(self, 'text_feats'); reparameterize sets self.texts with it.
TextSource(samples, hasCache) ==
    IF samples.ty = "None"
    THEN \* self.texts on an object that never had it set
         IF hasCache THEN Resolved("cache") ELSE Raised("AttributeError")
    ELSE IF samples.ty = "dict" /\ samples.has
    THEN Resolved("dict")
    ELSE IF samples.ty = "list" /\ Len(samples.items) = 0
    THEN \* batch_data_samples[0] of an empty list
         Raised("IndexError")
    ELSE IF samples.ty = "list" /\ samples.items[1].has
    THEN \* data_sample.texts is read from every element
         IF \A i \in 1..Len(samples.items) : samples.items[i].has
         THEN Resolved("list")
         ELSE Raised("AttributeError")
    ELSE IF hasCache
    THEN Resolved("cache")
    ELSE Raised("TypeError")

\* The texts the chain binds.
SourceTexts(src, samples, selfTexts) ==
    IF src = "cache" THEN selfTexts.val
    ELSE IF src = "dict" THEN samples.texts
    ELSE [i \in 1..Len(samples.items) |-> samples.items[i].texts]

\* A plausible slip: the cached embeddings are dropped and recomputed.
SourceFeats_recompute(src, selfFeats) == NoAttr(NoFeats)

\* txt_feats after the chain: the cached tensor, or None.
SourceFeats(src, selfFeats) ==
    IF src = "cache" THEN Attr(selfFeats.val) ELSE NoAttr(NoFeats)

\* The backbone call: the image branch alone when txt_feats is not None.
BackboneCalls(tx, feats, nc) ==
    IF feats.set
    THEN <<CallRec("backbone.forward_image", NoFeats, nc)>>
    ELSE <<CallRec("backbone", backbone_joint(tx), nc)>>

BackboneFeats(tx, feats) ==
    IF feats.set THEN feats.val ELSE backbone_joint(tx)

NeckCalls(withNeck, mmNeck, feats, nc) ==
    IF ~withNeck THEN <<>>
    ELSE IF mmNeck THEN <<CallRec("neck(img_feats, txt_feats)", feats, nc)>>
    ELSE <<CallRec("neck(img_feats)", NoFeats, nc)>>

\* extract_feat: [exc, src, txt_feats, calls].  nc is bbox_head.num_classes
\* while it runs.
extract_feat(samples, selfTexts, selfFeats, withNeck, mmNeck, nc) ==
    LET r == TextSource(samples, selfFeats.set) IN
    IF r.exc # "none"
    THEN [exc |-> r.exc, src |-> "none", txt_feats |-> NoFeats, calls |-> <<>>]
    ELSE LET tx    == SourceTexts(r.src, samples, selfTexts)
             cache == SourceFeats(r.src, selfFeats)
             feats == BackboneFeats(tx, cache)
         IN [exc |-> "none", src |-> r.src, txt_feats |-> feats,
             calls |-> BackboneCalls(tx, cache, nc)
                       \o NeckCalls(withNeck, mmNeck, feats, nc)]

-----------------------------------------------------------------------------
(* YOLOWorldPromptDetector.extract_feat *)

\* self.embeddings[None].repeat(B, 1, 1): the table, once per image.
prompt_extract_feat(b, rows, withNeck, mmNeck, nc) ==
    LET feats == Feats("embeddings", <<>>, b, rows) IN
    [exc |-> "none", src |-> "embeddings", txt_feats |-> feats,
     calls |-> <<CallRec("backbone", NoFeats, nc)>>
               \o NeckCalls(withNeck, mmNeck, feats, nc)]

-----------------------------------------------------------------------------
(* The assignments to bbox_head.num_classes *)

\* The head's class count as loss sets it.
LossNumClasses(train, test, cur) == train

\* The statement predict used to have (kept in the source as a comment).
PredictNumClasses_static(feats, test, cur) == test

\* The head's class count as predict sets it: txt_feats[0].shape[0].
PredictNumClasses(feats, test, cur) == feats.shape[2]

\* YOLOWorldPromptDetector.predict: the configured count.
PromptPredictNumClasses(feats, test, cur) == test

-----------------------------------------------------------------------------
(* Construction *)

TextDetector   == "YOLOWorldDetector"
PromptDetector == "YOLOWorldPromptDetector"

NoCall  == [op |-> "none", samples |-> NoneSample, texts |-> <<>>, batch |-> 0]
NoQuery == [op |-> "none"]
NoExtract == [src |-> "none", txt_feats |-> NoFeats]
Extracted(r) == [src |-> r.src, txt_feats |-> r.txt_feats]

Call(op, samples, tx, b) == [op |-> op, samples |-> samples, texts |-> tx, batch |-> b]

\* __init__ of either class; the head comes with a class count of its own.
Constructed ==
    /\ detector \in {TextDetector, PromptDetector}
    /\ with_neck \in BOOLEAN
    /\ mm_neck \in (IF with_neck THEN BOOLEAN ELSE {FALSE})
    /\ num_train_classes \in 1..MaxClasses
    /\ num_test_classes \in 1..MaxClasses
    /\ num_prompts \in (IF detector = PromptDetector THEN 1..MaxClasses ELSE {0})
    /\ num_classes \in 1..MaxClasses
    /\ texts = NoAttr(<<>>)
    /\ text_feats = NoAttr(NoFeats)
    /\ reparam = NoAttr(NoFeats)
    /\ call = NoCall
    /\ trace = <<>>
    /\ outcome = "ok"
    /\ extracted = NoExtract

ConcIdle ==
    /\ serialized = TRUE
    /\ frames = <<>>
    /\ writer = "none"

Init ==
    /\ Constructed
    /\ ConcIdle
    /\ query = NoQuery

-----------------------------------------------------------------------------
(* YOLOWorldDetector *)

Loss(samples) ==
    /\ detector = TextDetector
    /\ num_classes' = LossNumClasses(num_train_classes, num_test_classes, num_classes)
    /\ LET r == extract_feat(samples, texts, text_feats, with_neck, mm_neck,
                             num_classes')
       IN /\ outcome' = IF r.exc = "none" THEN "ok" ELSE r.exc
          /\ extracted' = Extracted(r)
          /\ trace' = IF r.exc = "none"
                      THEN r.calls \o <<CallRec("bbox_head.loss", r.txt_feats,
                                                num_classes')>>
                      ELSE r.calls
    /\ call' = Call("loss", samples, <<>>, 0)
    /\ UNCHANGED <<detVars, cacheVars, concVars, query>>

Predict(samples) ==
    /\ detector = TextDetector
    /\ LET r == extract_feat(samples, texts, text_feats, with_neck, mm_neck,
                             num_classes)
       IN /\ outcome' = IF r.exc = "none" THEN "ok" ELSE r.exc
          /\ extracted' = Extracted(r)
          /\ num_classes' = IF r.exc = "none"
                            THEN PredictNumClasses(r.txt_feats, num_test_classes,
                                                   num_classes)
                            ELSE num_classes
          /\ trace' = IF r.exc = "none"
                      THEN r.calls
                           \o <<CallRec("bbox_head.predict", r.txt_feats, num_classes'),
                                CallRec("add_pred_to_datasample", NoFeats, num_classes')>>
                      ELSE r.calls
    /\ call' = Call("predict", samples, <<>>, 0)
    /\ UNCHANGED <<detVars, cacheVars, concVars, query>>

Reparameterize(tx) ==
    /\ detector = TextDetector
    /\ texts' = Attr(tx)
    /\ text_feats' = Attr(forward_text(tx))
    /\ reparam' = Attr(forward_text(tx))
    /\ call' = Call("reparameterize", NoneSample, tx, 0)
    /\ trace' = <<CallRec("backbone.forward_text", forward_text(tx), num_classes)>>
    /\ outcome' = "ok"
    /\ extracted' = NoExtract
    /\ UNCHANGED <<detVars, num_classes, concVars, query>>

Forward(samples) ==
    /\ detector = TextDetector
    /\ LET r == extract_feat(samples, texts, text_feats, with_neck, mm_neck,
                             num_classes)
       IN /\ outcome' = IF r.exc = "none" THEN "ok" ELSE r.exc
          /\ extracted' = Extracted(r)
          /\ trace' = IF r.exc = "none"
                      THEN r.calls \o <<CallRec("bbox_head.forward", r.txt_feats,
                                                num_classes)>>
                      ELSE r.calls
    /\ call' = Call("_forward", samples, <<>>, 0)
    /\ UNCHANGED <<detVars, num_classes, cacheVars, concVars, query>>

ExtractFeat(samples) ==
    /\ detector = TextDetector
    /\ LET r == extract_feat(samples, texts, text_feats, with_neck, mm_neck,
                             num_classes)
       IN /\ outcome' = IF r.exc = "none" THEN "ok" ELSE r.exc
          /\ extracted' = Extracted(r)
          /\ trace' = r.calls
    /\ call' = Call("extract_feat", samples, <<>>, 0)
    /\ UNCHANGED <<detVars, num_classes, cacheVars, concVars, query>>

-----------------------------------------------------------------------------
(* YOLOWorldPromptDetector *)

PromptLoss(b) ==
    /\ detector = PromptDetector
    /\ num_classes' = LossNumClasses(num_train_classes, num_test_classes, num_classes)
    /\ LET r == prompt_extract_feat(b, num_prompts, with_neck, mm_neck, num_classes')
       IN /\ extracted' = Extracted(r)
          /\ trace' = r.calls
                      \o <<CallRec("bbox_head.loss", r.txt_feats, num_classes')>>
    /\ outcome' = "ok"
    /\ call' = Call("loss", ListSample(<<>>), <<>>, b)
    /\ UNCHANGED <<detVars, cacheVars, concVars, query>>

PromptPredict(b) ==
    /\ detector = PromptDetector
    /\ LET r == prompt_extract_feat(b, num_prompts, with_neck, mm_neck, num_classes)
       IN /\ extracted' = Extracted(r)
          /\ num_classes' = PromptPredictNumClasses(r.txt_feats, num_test_classes,
                                                    num_classes)
          /\ trace' = r.calls
                      \o <<CallRec("bbox_head.predict", r.txt_feats, num_classes'),
                           CallRec("add_pred_to_datasample", NoFeats, num_classes')>>
    /\ outcome' = "ok"
    /\ call' = Call("predict", ListSample(<<>>), <<>>, b)
    /\ UNCHANGED <<detVars, cacheVars, concVars, query>>

PromptForward(b) ==
    /\ detector = PromptDetector
    /\ LET r == prompt_extract_feat(b, num_prompts, with_neck, mm_neck, num_classes)
       IN /\ extracted' = Extracted(r)
          /\ trace' = r.calls
                      \o <<CallRec("bbox_head.forward", r.txt_feats, num_classes)>>
    /\ outcome' = "ok"
    /\ call' = Call("_forward", ListSample(<<>>), <<>>, b)
    /\ UNCHANGED <<detVars, num_classes, cacheVars, concVars, query>>

PromptExtractFeat(b) ==
    /\ detector = PromptDetector
    /\ LET r == prompt_extract_feat(b, num_prompts, with_neck, mm_neck, num_classes)
       IN /\ extracted' = Extracted(r)
          /\ trace' = r.calls
    /\ outcome' = "ok"
    /\ call' = Call("extract_feat", ListSample(<<>>), <<>>, b)
    /\ UNCHANGED <<detVars, num_classes, cacheVars, concVars, query>>

Next ==
    \/ \E s \in Samples : Loss(s)
    \/ \E s \in Samples : Predict(s)
    \/ \E T \in TextLists : Reparameterize(<<T>>)
    \/ \E s \in Samples : Forward(s)
    \/ \E s \in Samples : ExtractFeat(s)
    \/ \E b \in 1..MaxBatch : PromptLoss(b)
    \/ \E b \in 1..MaxBatch : PromptPredict(b)
    \/ \E b \in 1..MaxBatch : PromptForward(b)
    \/ \E b \in 1..MaxBatch : PromptExtractFeat(b)

Spec == Init /\ [][Next]_vars

-----------------------------------------------------------------------------
(* Properties of the handlers (Spec) *)

IsText == detector = TextDetector

HeadCalls(fn) == {i \in DOMAIN trace : trace[i].fn = fn}

\* The texts a sample batch carries: a mapping's `texts`, or the texts of
\* the samples of a list.
CarriesTexts(s) ==
    \/ s.ty = "dict" /\ s.has
    \/ s.ty = "list" /\ Len(s.items) > 0 /\ \A i \in 1..Len(s.items) : s.items[i].has

CarriedTexts(s) ==
    IF s.ty = "dict" THEN s.texts ELSE [i \in 1..Len(s.items) |-> s.items[i].texts]

\* The class count of the texts the current call resolves.
CurrentClasses ==
    IF CarriesTexts(call.samples)
    THEN Len(CarriedTexts(call.samples)[1])
    ELSE reparam.val.shape[2]

UsedCache ==
    /\ outcome = "ok"
    /\ extracted.txt_feats = text_feats.val
    /\ trace[1].fn = "backbone.forward_image"

UsedTexts(tx) ==
    /\ outcome = "ok"
    /\ extracted.txt_feats = backbone_joint(tx)
    /\ trace[1] = CallRec("backbone", backbone_joint(tx), trace[1].num_classes)

\* C1: in a serialized sequence of loss and predict calls on a
\* YOLOWorldDetector, bbox_head.loss is entered with head.num_classes equal
\* to num_train_classes, and bbox_head.predict with head.num_classes equal
\* to the class count of the text features of the current call.
C1_HeadClassCount ==
    IsText =>
        /\ \A i \in HeadCalls("bbox_head.loss") :
               trace[i].num_classes = num_train_classes
        /\ \A i \in HeadCalls("bbox_head.predict") :
               trace[i].num_classes = CurrentClasses

\* A predict whose class count is neither configured count.
C1_Witness ==
    /\ IsText
    /\ call.op = "predict"
    /\ HeadCalls("bbox_head.predict") # {}
    /\ CurrentClasses # num_test_classes
    /\ CurrentClasses # num_train_classes
    /\ num_classes = CurrentClasses

\* C2: whenever either detector enters bbox_head.loss or bbox_head.predict,
\* the class count of the text features it passes equals head.num_classes.
C2_FeatsMatchHead ==
    \A i \in HeadCalls("bbox_head.loss") \cup HeadCalls("bbox_head.predict") :
        trace[i].txt_feats.shape[2] = trace[i].num_classes

\* C4: extract_feat takes its texts (a) from the cache when samples is None,
\* (b) from a mapping with 'texts', (c) from a list of samples that each
\* expose 'texts', (d) from the cache otherwise, when there is one.  An
\* empty list may count as (c) or fall to (d).
C4_SourcePriority ==
    (IsText /\ call.op = "extract_feat") =>
        LET s == call.samples IN
        IF s.ty = "None" THEN (text_feats.set => UsedCache)
        ELSE IF CarriesTexts(s) THEN UsedTexts(CarriedTexts(s))
        ELSE IF s.ty = "list" /\ Len(s.items) = 0
        THEN (text_feats.set => (UsedCache \/ outcome = "ok"))
        ELSE (text_feats.set => UsedCache)

\* C5: after reparameterize(T), a predict or extract_feat call with
\* batch_data_samples = None gets exactly the text features that
\* reparameterize computed and calls forward_image only; a call that takes
\* its texts from the samples runs the joint backbone.
C5_CacheReused ==
    (IsText /\ call.op \in {"predict", "extract_feat"}) =>
        /\ (call.samples.ty = "None" /\ reparam.set) =>
               /\ outcome = "ok"
               /\ extracted.txt_feats = reparam.val
               /\ trace[1].fn = "backbone.forward_image"
               /\ \A i \in DOMAIN trace :
                      trace[i].fn \notin {"backbone", "backbone.forward_text"}
        /\ CarriesTexts(call.samples) => UsedTexts(CarriedTexts(call.samples))

\* A predict without samples on a detector that was reparameterized.
C5_Witness ==
    /\ IsText
    /\ call.op = "predict"
    /\ call.samples.ty = "None"
    /\ reparam.set
    /\ outcome = "ok"
    /\ num_classes = reparam.val.shape[2]
    /\ num_classes # num_test_classes

\* C6: a batch_data_samples value that resolves through none of the four
\* sources makes extract_feat raise TypeError before any backbone or neck
\* call.
C6_TypeError ==
    (/\ IsText
     /\ call.op = "extract_feat"
     /\ ~text_feats.set
     /\ ~CarriesTexts(call.samples)) =>
        /\ outcome = "TypeError"
        /\ trace = <<>>

-----------------------------------------------------------------------------
(* loss and predict of two callers on one YOLOWorldDetector, statement by   *)
(* statement (SpecConc)                                                     *)

Callers == {"caller1", "caller2"}

Idle == [pc |-> "idle", op |-> "none", samples |-> NoneSample,
         txt_feats |-> NoFeats, assigned |-> 0]

ConcSamples == {NoneSample} \cup {DictSample(T) : T \in TextLists}

\* A plausible slip: predict delegates without assigning the class count.
NextStmt_no_assign(pc) ==
    CASE pc = "loss"            -> "loss_assign"
      [] pc = "loss_assign"     -> "loss_extract"
      [] pc = "loss_extract"    -> "loss_head"
      [] pc = "loss_head"       -> "return"
      [] pc = "predict"         -> "predict_extract"
      [] pc = "predict_extract" -> "predict_head"
      [] pc = "predict_assign"  -> "predict_head"
      [] pc = "predict_head"    -> "return"

\* The order of the statements of loss and of predict: the statement a
\* caller is at once `pc` is done.  "loss_head" and "predict_head": inside
\* bbox_head.loss / bbox_head.predict.
NextStmt(pc) ==
    CASE pc = "loss"            -> "loss_assign"
      [] pc = "loss_assign"     -> "loss_extract"
      [] pc = "loss_extract"    -> "loss_head"
      [] pc = "loss_head"       -> "return"
      [] pc = "predict"         -> "predict_extract"
      [] pc = "predict_extract" -> "predict_assign"
      [] pc = "predict_assign"  -> "predict_head"
      [] pc = "predict_head"    -> "return"

At(t, pc) == frames[t].pc = NextStmt(pc)

Goto(t, pc, f) ==
    frames' = [frames EXCEPT ![t] =
                  IF NextStmt(pc) = "return" THEN Idle
                  ELSE [f EXCEPT !.pc = NextStmt(pc)]]

InitConc ==
    /\ Constructed
    /\ detector = TextDetector
    /\ serialized \in BOOLEAN
    /\ frames = [t \in Callers |-> Idle]
    /\ writer = "none"
    /\ query = NoQuery

\* A caller enters loss or predict; a serialized caller waits for the others.
Enter(t, op, samples) ==
    /\ frames[t].pc = "idle"
    /\ serialized => \A u \in Callers : frames[u].pc = "idle"
    /\ frames' = [frames EXCEPT ![t] =
                     [Idle EXCEPT !.pc = NextStmt(op), !.op = op,
                                  !.samples = samples]]
    /\ UNCHANGED <<detVars, num_classes, cacheVars, logVars, serialized, writer,
                   query>>

\* self.bbox_head.num_classes = self.num_train_classes
LossAssign(t) ==
    /\ At(t, "loss")
    /\ num_classes' = LossNumClasses(num_train_classes, num_test_classes, num_classes)
    /\ writer' = t
    /\ Goto(t, "loss_assign", [frames[t] EXCEPT !.assigned = num_classes'])
    /\ UNCHANGED <<detVars, cacheVars, logVars, serialized, query>>

\* img_feats, txt_feats = self.extract_feat(...), in loss and in predict
Extract(t, stmt) ==
    /\ At(t, stmt)
    /\ LET r == extract_feat(frames[t].samples, texts, text_feats, with_neck,
                             mm_neck, num_classes)
       IN IF r.exc = "none"
          THEN Goto(t, NextStmt(stmt), [frames[t] EXCEPT !.txt_feats = r.txt_feats])
          ELSE frames' = [frames EXCEPT ![t] = Idle]
    /\ UNCHANGED <<detVars, num_classes, cacheVars, logVars, serialized, writer,
                   query>>

\* self.bbox_head.num_classes = txt_feats[0].shape[0]
PredictAssign(t) ==
    /\ At(t, "predict_extract")
    /\ num_classes' = PredictNumClasses(frames[t].txt_feats, num_test_classes,
                                        num_classes)
    /\ writer' = t
    /\ Goto(t, "predict_assign", [frames[t] EXCEPT !.assigned = num_classes'])
    /\ UNCHANGED <<detVars, cacheVars, logVars, serialized, query>>

\* bbox_head.loss / bbox_head.predict returns, and the handler with it.
HeadReturn(t) ==
    /\ frames[t].pc \in {"loss_head", "predict_head"}
    /\ Goto(t, frames[t].pc, frames[t])
    /\ UNCHANGED <<detVars, num_classes, cacheVars, logVars, serialized, writer,
                   query>>

NextConc ==
    \/ \E t \in Callers, s \in ConcSamples : Enter(t, "loss", s)
    \/ \E t \in Callers, s \in ConcSamples : Enter(t, "predict", s)
    \/ \E t \in Callers : LossAssign(t)
    \/ \E t \in Callers : Extract(t, "loss_assign")
    \/ \E t \in Callers : Extract(t, "predict")
    \/ \E t \in Callers : PredictAssign(t)
    \/ \E t \in Callers : HeadReturn(t)

SpecConc == InitConc /\ [][NextConc]_vars

InHead(t) == frames[t].pc \in {"loss_head", "predict_head"}

\* C3: while the calls are serialized, bbox_head.loss and bbox_head.predict
\* never run with a head.num_classes assigned by another call; without
\* serialization they can.
C3_SerializedNoCrossTalk ==
    serialized =>
        \A t \in Callers :
            InHead(t) => (writer = t /\ num_classes = frames[t].assigned)

\* Interleaved: a caller is inside the head while head.num_classes holds
\* what the other caller assigned, a different count.
C3_Witness ==
    /\ ~serialized
    /\ \E t \in Callers :
           /\ InHead(t)
           /\ writer \in Callers \ {t}
           /\ num_classes # frames[t].assigned
           /\ num_classes = frames[writer].assigned

-----------------------------------------------------------------------------
(* Numbers of query_cls_embed                                               *)
(*                                                                          *)
(* A tensor element is kept as an exact quotient                            *)
(*     num / (den + eps * 1e-12),   den + eps * 1e-12 > 0,                  *)
(* so that the 1e-12 the code adds to a divisor is neither rounded away nor *)
(* approximated.  Floating-point rounding is not modelled.                  *)

Quot(n, d, e) == [num |-> n, den |-> d, eps |-> e]
Rat(n, d) == Quot(n, d, 0)

\* x + y for elements over one divisor, or without 1e-12 in it.
AddQ(x, y) ==
    CASE x.den = y.den /\ x.eps = y.eps -> Quot(x.num + y.num, x.den, x.eps)
      [] (x.den # y.den \/ x.eps # y.eps) /\ x.eps = 0 /\ y.eps = 0 ->
             Quot(x.num * y.den + y.num * x.den, x.den * y.den, 0)

\* x * y, y without 1e-12.
MulQ(x, y) == Quot(x.num * y.num, x.den * y.den, x.eps * y.den)

\* x / (y + 1e-12), x and y without 1e-12
DivEps(x, y) == Quot(x.num * y.den, x.den * y.num, x.den * y.den)

\* x / n for a count n
DivInt(x, n) == Quot(x.num, x.den * n, x.eps * n)

\* x <= y for elements over one divisor, or without 1e-12 in it.
LeqQ(x, y) ==
    CASE x.den = y.den /\ x.eps = y.eps -> x.num <= y.num
      [] (x.den # y.den \/ x.eps # y.eps) /\ x.eps = 0 /\ y.eps = 0 ->
             x.num * y.den <= y.num * x.den

\* x < 0.5, x without 1e-12
LtHalf(x) == 2 * x.num < x.den

RECURSIVE SumQ(_)
\* the sum of a non-empty sequence of elements, left to right
SumQ(xs) ==
    IF Len(xs) = 1 THEN xs[1]
    ELSE AddQ(SumQ(SubSeq(xs, 1, Len(xs) - 1)), xs[Len(xs)])

\* torch.sigmoid on the logits the heads produce here, to three decimals.
Sigmoid(x) ==
    CASE x = -2 -> Rat(119, 1000)
      [] x = -1 -> Rat(269, 1000)
      [] x = 0  -> Rat(500, 1000)
      [] x = 1  -> Rat(731, 1000)
      [] x = 2  -> Rat(881, 1000)
      [] x = 3  -> Rat(953, 1000)

-----------------------------------------------------------------------------
(* YOLOWorldDetector.query_cls_embed *)

MaxHeads == 2
MaxVerts == 2

\* An element of a Python list handed in as `texts`.
Str(name) == [ty |-> "str", v |-> name]
NonStr    == [ty |-> "int", v |-> "7"]

ListTexts(items) == [form |-> "list", items |-> items, rows |-> Len(items)]
TensorTexts(c)   == [form |-> "tensor", items |-> <<>>, rows |-> c]

AllStr(items) == \A i \in 1..Len(items) : items[i].ty = "str"

\* isinstance(texts, list) and the assert on texts[0].
TextsCheck(tx) ==
    IF tx.form # "list" THEN "none"
    ELSE IF Len(tx.items) = 0 THEN "IndexError"
    ELSE IF tx.items[1].ty # "str" THEN "AssertionError"
    ELSE "none"

\* The calls that produce txt_feats: forward_text([texts]) -> [1, C, D] for a
\* list, texts.reshape(-1, 1, D) -> [C, 1, D] for a tensor.
TextsCalls(tx) ==
    IF tx.form = "list"
    THEN <<[fn |-> "backbone.forward_text", shape |-> <<1, tx.rows>>]>>
    ELSE <<[fn |-> "texts.reshape", shape |-> <<tx.rows, 1>>]>>

\* One call per contrastive head, by the method pre_normalized selects.
HeadCallsOf(heads, rows, pre) ==
    [h \in 1..heads |->
        [fn |-> IF pre THEN "cls_contrast.forward_no_normalization"
                       ELSE "cls_contrast.forward_flattened",
         shape |-> <<h, rows>>]]

\* What head h computes for class c at location v, for the given cls_embed.
HeadLogit(q, h, c, v) == q.a[h][c] + (v - 1)

\* cls_logit.sigmoid()
HeadOutput(x) == Sigmoid(x)

\* cls_logits: [head][class][location]
ClsLogits(q) ==
    [h \in 1..q.heads |-> [c \in 1..q.texts.rows |-> [v \in 1..q.verts |->
        HeadOutput(HeadLogit(q, h, c, v))]]]

\* A plausible slip: <= 0.5 for < 0.5.
SupervisedMask_leq(scale) ==
    [v \in DOMAIN scale |->
        2 * scale[v][Len(scale[v])].num <= scale[v][Len(scale[v])].den]

\* supvervised_mask = scale_logits[:, -1] < 0.5
SupervisedMask(scale) ==
    [v \in DOMAIN scale |-> LtHalf(scale[v][Len(scale[v])])]

\* scale_logits[:, :-1], as values
DropLast(scale) ==
    [v \in DOMAIN scale |-> SubSeq(scale[v], 1, Len(scale[v]) - 1)]

\* torch.stack(cls_logits, dim=0).permute(2, 0, 1): [location][head][class]
Stacked(cls_logits, heads, rows, verts) ==
    [v \in 1..verts |-> [h \in 1..heads |-> [c \in 1..rows |->
        cls_logits[h][c][v]]]]

\* scale_logits[mask] / (scale_logits[mask].sum(dim=1, keepdim=True) + 1e-12)
Renormalized(w, mask) ==
    [v \in DOMAIN w |->
        IF mask[v]
        THEN [h \in DOMAIN w[v] |-> DivEps(w[v][h], SumQ(w[v]))]
        ELSE w[v]]

\* A plausible slip: the slice is a copy, the caller's array is not written.
StoreThroughView_copy(mem, w) == mem

\* scale_logits[mask] = ...: scale_logits is a view of all but the last
\* channel of the caller's array, which therefore takes the values.
StoreThroughView(mem, w) ==
    [v \in DOMAIN mem |-> w[v] \o <<mem[v][Len(mem[v])]>>]

\* (stacked_cls_logits * scale_logits[..., None]).sum(dim=1).permute(1, 0):
\* [class][location]
WeightedSum(stacked, w, heads, rows, verts) ==
    [c \in 1..rows |-> [v \in 1..verts |->
        SumQ([h \in 1..heads |-> MulQ(w[v][h], stacked[v][h][c])])]]

\* The statement kept in the source as a comment: cls_logits[1] alone.
MeanOverHeads_second(cls_logits, heads, rows, verts) ==
    [c \in 1..rows |-> [v \in 1..verts |-> cls_logits[IF heads > 1 THEN 2 ELSE 1][c][v]]]

\* torch.stack(cls_logits, dim=0).mean(dim=0): [class][location]
MeanOverHeads(cls_logits, heads, rows, verts) ==
    [c \in 1..rows |-> [v \in 1..verts |->
        DivInt(SumQ([h \in 1..heads |-> cls_logits[h][c][v]]), heads)]]

\* The first index, counted from 0, at which column v is maximal.
ArgMax(cls_logit, v) ==
    (CHOOSE c \in DOMAIN cls_logit :
        /\ \A d \in DOMAIN cls_logit : LeqQ(cls_logit[d][v], cls_logit[c][v])
        /\ \A d \in 1..(c - 1) : ~LeqQ(cls_logit[c][v], cls_logit[d][v])) - 1

\* scores, labels = torch.max(cls_logit, dim=0)
TorchMax(cls_logit, verts) ==
    [scores |-> [v \in 1..verts |-> cls_logit[ArgMax(cls_logit, v) + 1][v]],
     labels |-> [v \in 1..verts |-> ArgMax(cls_logit, v)]]

\* A [i][j] tensor with its elements stored (the same value).
Array2(t) == [i \in DOMAIN t |-> t[i] \o <<>>] \o <<>>

NoRet == [scores |-> <<>>, labels |-> <<>>, cls_logit |-> <<>>]

\* The part of query_cls_embed after txt_feats: [mem, ret].
Combine(q) ==
    LET cls_logits == ClsLogits(q)
        H == q.heads
        C == q.texts.rows
        V == q.verts
    IN IF q.scale.set
       THEN LET mask == SupervisedMask(q.mem)
                w    == Array2(Renormalized(DropLast(q.mem), mask))
                mem2 == Array2(StoreThroughView(q.mem, w))
                cl   == Array2(WeightedSum(Stacked(cls_logits, H, C, V),
                                           Array2(DropLast(mem2)), H, C, V))
                m    == TorchMax(cl, V)
            IN [mem |-> mem2,
                ret |-> [scores |-> m.scores, labels |-> m.labels, cls_logit |-> cl]]
       ELSE LET cl == Array2(MeanOverHeads(cls_logits, H, C, V))
                m  == TorchMax(cl, V)
            IN [mem |-> q.mem,
                ret |-> [scores |-> m.scores, labels |-> m.labels, cls_logit |-> cl]]

\* The inputs of a call.  Head logits: x[h] + y[c], shifted by the location.
\* Mixing weights: one row of weights, rotated by the location; one
\* uncertainty per location.
HeadVals   == {-1, 0}
ClassVals  == {0, 1}
WeightVals == {Rat(0, 4), Rat(3, 4)}
UncVals    == {Rat(1, 4), Rat(2, 4)}

ScaleArray(w, u, heads, verts) ==
    [v \in 1..verts |->
        [h \in 1..heads |-> w[((h + v - 2) % heads) + 1]] \o <<u[v]>>]

NoScale == [set |-> FALSE, val |-> <<>>]

ScaleArgs(heads, verts) ==
    {NoScale} \cup
    {Attr(ScaleArray(w, u, heads, verts)) :
        w \in [1..heads -> WeightVals], u \in [1..verts -> UncVals]}

StrList(c) == [i \in 1..c |-> Str(Names[i])]

Lists(n) == [1..n -> {Str("cat"), NonStr}]

\* The call as it is entered: `scale` is scale_logits as passed, `mem` the
\* caller's array.
Entered(tx, pre, heads, verts, a, scale) ==
    [op |-> "entered", texts |-> tx, pre_normalized |-> pre, heads |-> heads,
     verts |-> verts, a |-> a, scale |-> scale, mem |-> scale.val,
     exc |-> "none", calls |-> <<>>, ret |-> NoRet]

\* The head logits x[h] + y[c].
HeadLogits(x, y, heads, rows) ==
    [h \in 1..heads |-> [c \in 1..rows |-> x[h] + y[c]]]

InitQuery ==
    /\ Constructed
    /\ detector = TextDetector
    /\ ~with_neck
    /\ num_train_classes = MaxClasses
    /\ num_test_classes = MaxClasses
    /\ num_classes = num_train_classes
    /\ ConcIdle
    /\ query = NoQuery

\* query_cls_embed(texts, cls_embed, scale_logits, pre_normalized=...).  The
\* text encoder is outside this file: handed a list with a non-string it
\* may raise or return (encoded).
QueryClsEmbed(q, encoded) ==
    /\ query.op = "none"
    /\ encoded \/ (q.texts.form = "list" /\ ~AllStr(q.texts.items))
    /\ LET chk == TextsCheck(q.texts)
       IN query' =
            IF chk # "none"
            THEN [q EXCEPT !.op = "done", !.exc = chk]
            ELSE IF ~encoded
            THEN [q EXCEPT !.op = "done", !.exc = "EncoderError",
                           !.calls = TextsCalls(q.texts)]
            ELSE LET r == Combine(q)
                 IN [q EXCEPT !.op = "done",
                              !.calls = TextsCalls(q.texts)
                                        \o HeadCallsOf(q.heads, q.texts.rows,
                                                       q.pre_normalized),
                              !.mem = r.mem,
                              !.ret = r.ret]
    /\ UNCHANGED <<detVars, num_classes, cacheVars, logVars, concVars>>

\* reparameterize before the query
QueryReparameterize(tx) ==
    /\ query.op = "none"
    /\ ~text_feats.set
    /\ Reparameterize(tx)

\* A call on well-formed texts, over the numeric inputs.
QueryNumeric ==
    /\ query.op = "none"
    /\ \E h \in 1..MaxHeads, c \in 1..MaxClasses, v \in 1..MaxVerts :
         \E tx \in {ListTexts(StrList(c)), TensorTexts(c)},
            pre \in BOOLEAN,
            x \in [1..h -> HeadVals],
            y \in [1..c -> ClassVals],
            sc \in ScaleArgs(h, v) :
             QueryClsEmbed(Entered(tx, pre, h, v, HeadLogits(x, y, h, c), sc), TRUE)

\* A call on any list of strings and non-strings, numeric inputs fixed.
QueryList ==
    /\ query.op = "none"
    /\ \E n \in 0..MaxClasses :
         \E items \in Lists(n), e \in BOOLEAN :
             QueryClsEmbed(Entered(ListTexts(items), TRUE, 1, 1,
                                   HeadLogits(<<1>>, [c \in 1..n |-> 0], 1, n),
                                   NoScale), e)

NextQuery ==
    \/ QueryNumeric
    \/ QueryList
    \/ \E T \in TextLists : QueryReparameterize(<<T>>)

SpecQuery == InitQuery /\ [][NextQuery]_vars

-----------------------------------------------------------------------------
(* Properties of query_cls_embed (SpecQuery) *)

Returned == query.op = "done" /\ query.exc = "none"

\* The mixing weights of location v as passed, without the last channel.
PassedWeights(q, v) == SubSeq(q.scale.val[v], 1, q.heads)

\* The last channel of location v as passed.
PassedUncertainty(q, v) == q.scale.val[v][q.heads + 1]

\* The sigmoid output of head h for class c at location v.
HeadSigmoid(q, h, c, v) == Sigmoid(HeadLogit(q, h, c, v))

\* C7: with scale_logits supplied, the logit map is per location the sum
\* over heads of weight * sigmoid output; the weights are the supplied ones
\* where the last channel is >= 0.5 and the supplied ones divided by
\* (their sum + 1e-12) where it is < 0.5; the last channel is no summand.
C7_WeightedMix ==
    (Returned /\ query.scale.set) =>
        \A c \in 1..query.texts.rows, v \in 1..query.verts :
            LET w == PassedWeights(query, v)
                mix == IF LtHalf(PassedUncertainty(query, v))
                       THEN [h \in 1..query.heads |-> DivEps(w[h], SumQ(w))]
                       ELSE w
            IN query.ret.cls_logit[c][v] =
                   SumQ([h \in 1..query.heads |->
                            MulQ(mix[h], HeadSigmoid(query, h, c, v))])

\* A call of two heads whose first location is supervised with weights
\* 0.75 + 0.75, and whose second location has uncertainty exactly 0.5.
C7_Witness ==
    /\ Returned /\ query.scale.set
    /\ query.heads = 2
    /\ query.texts.rows = 2
    /\ PassedWeights(query, 1) = <<Rat(3, 4), Rat(3, 4)>>
    /\ PassedUncertainty(query, 1) = Rat(1, 4)
    /\ query.ret.cls_logit[1][1] # query.ret.cls_logit[2][1]
    /\ query.verts = 2
    /\ PassedUncertainty(query, 2) = Rat(2, 4)

\* C8: without scale_logits the logit map is the mean over the heads of the
\* sigmoid outputs, the score of a location is the maximum of the map over
\* the classes and the label a class that attains it.
C8_MeanAndMax ==
    (Returned /\ ~query.scale.set) =>
        /\ \A c \in 1..query.texts.rows, v \in 1..query.verts :
               query.ret.cls_logit[c][v] =
                   DivInt(SumQ([h \in 1..query.heads |-> HeadSigmoid(query, h, c, v)]),
                          query.heads)
        /\ \A v \in 1..query.verts :
               /\ query.ret.labels[v] + 1 \in 1..query.texts.rows
               /\ query.ret.scores[v] = query.ret.cls_logit[query.ret.labels[v] + 1][v]
               /\ \A c \in 1..query.texts.rows :
                      LeqQ(query.ret.cls_logit[c][v], query.ret.scores[v])

\* Two heads that disagree, two classes, the second class wins.
C8_Witness ==
    /\ Returned /\ ~query.scale.set
    /\ query.heads = 2
    /\ query.texts.rows = 2
    /\ HeadSigmoid(query, 1, 1, 1) # HeadSigmoid(query, 2, 1, 1)
    /\ query.ret.labels[1] = 1
    /\ query.ret.scores[1] # query.ret.cls_logit[1][1]

\* C9: a list `texts` with a non-string element at any position makes the
\* call fail with an assertion failure before the text encoder and the
\* heads are called.
C9_AssertEveryElement ==
    (/\ query.op = "done"
     /\ query.texts.form = "list"
     /\ ~AllStr(query.texts.items)) =>
        /\ query.exc = "AssertionError"
        /\ query.calls = <<>>

\* C10: a call with scale_logits leaves in the caller's array the
\* renormalized weights at the supervised locations and nothing else
\* changed, and leaves head.num_classes and the cached texts and text
\* features as they were.
C10_CallerArray ==
    [][(/\ query.op = "none"
        /\ query'.op = "done"
        /\ query'.exc = "none"
        /\ query'.scale.set) =>
           /\ \A v \in 1..query'.verts :
                  LET w == PassedWeights(query', v)
                      u == PassedUncertainty(query', v)
                  IN /\ query'.mem[v][query'.heads + 1] = u
                     /\ SubSeq(query'.mem[v], 1, query'.heads) =
                            IF LtHalf(u)
                            THEN [h \in 1..query'.heads |-> DivEps(w[h], SumQ(w))]
                            ELSE w
           /\ num_classes' = num_classes
           /\ texts' = texts
           /\ text_feats' = text_feats]_vars

\* A call on a reparameterized detector that rewrote the supervised first
\* location of the caller's array and left the uncertain second one.
C10_Witness ==
    /\ Returned /\ query.scale.set
    /\ text_feats.set
    /\ PassedWeights(query, 1) = <<Rat(3, 4), Rat(3, 4)>>
    /\ PassedUncertainty(query, 1) = Rat(1, 4)
    /\ query.mem[1] = <<DivEps(Rat(3, 4), Rat(6, 4)), DivEps(Rat(3, 4), Rat(6, 4)),
                        Rat(1, 4)>>
    /\ query.mem[1] # query.scale.val[1]
    /\ query.verts = 2
    /\ PassedUncertainty(query, 2) = Rat(2, 4)
    /\ query.mem[2] = query.scale.val[2]

====
